---- MODULE Spec2Model ----
(***************************************************************************)
(* psql-wrapper (psqlw): a wrapper that resolves the login username from   *)
(* the command line, asks an external password provider for the password,  *)
(* adds PGPASSWORD to the child's environment and runs psql.               *)
(*                                                                         *)
(* Model of src/internal/wrapper.go (the wrapper type, lines 232-506) and  *)
(* src/cmd/psqlw/main.go (lines 16-29).                                    *)
(*                                                                         *)
(* A Go string is a sequence of one-character strings: "-Ub" is            *)
(* <<"-", "U", "b">> and "" is <<>>.                                       *)
(***************************************************************************)
EXTENDS Integers, Sequences, FiniteSets, TLC

(***************************************************************************)
(* Bounds of the model.                                                    *)
(***************************************************************************)
\* longest argument vector given to the Resolver
MaxArgs == 4
\* longest argument vector of a modelled invocation of the Launcher
MaxLaunchArgs == 2
\* longest standard output of the password provider
MaxOut == 3
\* the target exits normally with a code in 0..MaxExit, or with 255
MaxExit == 2

(***************************************************************************)
(* Package strings.                                                        *)
(***************************************************************************)
\* strings.HasPrefix
HasPrefix(s, p) ==
    /\ Len(p) <= Len(s)
    /\ SubSeq(s, 1, Len(p)) = p

\* s[n:] of Go, for a 0-based n
From(s, n) ==
    SubSeq(s, n + 1, Len(s))

\* strings.Index for a one-character separator, as a 1-based position; 0 when absent
Index(s, c) ==
    IF \E i \in 1..Len(s) : s[i] = c
    THEN CHOOSE i \in 1..Len(s) : s[i] = c /\ \A j \in 1..(i - 1) : s[j] # c
    ELSE 0

\* strings.LastIndex for a one-character separator, as a 1-based position; 0 when absent
LastIndex(s, c) ==
    IF \E i \in 1..Len(s) : s[i] = c
    THEN CHOOSE i \in 1..Len(s) : s[i] = c /\ \A j \in (i + 1)..Len(s) : s[j] # c
    ELSE 0

\* strings.SplitN(s, c, 2): <<s>> without the separator, else <<before, after>>
SplitN2(s, c) ==
    LET i == Index(s, c)
    IN  IF i = 0 THEN <<s>>
        ELSE <<SubSeq(s, 1, i - 1), SubSeq(s, i + 1, Len(s))>>

\* the white space of regexp \s and of strings.TrimSpace, within the model's alphabet
WhiteSpace == {" ", "\t", "\n", "\r", "\f"}

\* strings.TrimRight(s, cutset)
RECURSIVE TrimRight(_, _)
TrimRight(s, cutset) ==
    IF s # <<>> /\ s[Len(s)] \in cutset
    THEN TrimRight(SubSeq(s, 1, Len(s) - 1), cutset)
    ELSE s

\* strings.TrimLeft(s, cutset)
RECURSIVE TrimLeft(_, _)
TrimLeft(s, cutset) ==
    IF s # <<>> /\ s[1] \in cutset
    THEN TrimLeft(Tail(s), cutset)
    ELSE s

\* strings.TrimSpace
TrimSpace(s) ==
    TrimLeft(TrimRight(s, WhiteSpace), WhiteSpace)

\* regexp.MustCompile(`\s+`).Split(s, -1): the pieces between the runs of white
\* space; a run at either end leaves an empty piece there, and "" gives <<"">>
RECURSIVE SplitSpace(_, _, _)
SplitSpace(s, i, piece) ==
    IF i > Len(s) THEN <<piece>>
    ELSE IF s[i] \in WhiteSpace
         THEN IF i > 1 /\ s[i - 1] \in WhiteSpace
              THEN SplitSpace(s, i + 1, piece)
              ELSE <<piece>> \o SplitSpace(s, i + 1, <<>>)
         ELSE SplitSpace(s, i + 1, Append(piece, s[i]))

(***************************************************************************)
(* Package net/url, as far as url.Parse decides URL.User of a string that  *)
(* starts with "postgresql:".  The model's strings hold no "%", so no      *)
(* percent-decoding (and no IPv6 zone) is modelled.                        *)
(***************************************************************************)
Letters ==
    {"a", "b", "c", "d", "e", "f", "g", "h", "i", "j", "k", "l", "m",
     "n", "o", "p", "q", "r", "s", "t", "u", "v", "w", "x", "y", "z",
     "A", "B", "C", "D", "E", "F", "G", "H", "I", "J", "K", "L", "M",
     "N", "O", "P", "Q", "R", "S", "T", "U", "V", "W", "X", "Y", "Z"}

Digits ==
    {"0", "1", "2", "3", "4", "5", "6", "7", "8", "9"}

\* url.validUserinfo: the characters a userinfo may hold
UserinfoChars ==
    Letters \cup Digits \cup
    {"-", ".", "_", ":", "~", "!", "$", "&", "'", "(", ")", "*", "+", ",", ";", "=", "@"}

\* url.shouldEscape(c, encodeHost) = false: the characters a host may hold
HostChars ==
    Letters \cup Digits \cup
    {"-", "_", ".", "~", "!", "$", "&", "'", "(", ")", "*", "+", ",", ";", "=", ":",
     "[", "]", "<", ">", "\""}

\* url.stringContainsCTLByte, within the model's alphabet
ContainsCTLByte(s) ==
    \E i \in 1..Len(s) : s[i] \in {"\t", "\n", "\r", "\f"}

\* url.validOptionalPort: "" or ":" followed by digits only
validOptionalPort(port) ==
    \/ port = <<>>
    \/ /\ port[1] = ":"
       /\ \A i \in 2..Len(port) : port[i] \in Digits

\* url.parseHost succeeds
parseHostOk(host) ==
    /\ IF HasPrefix(host, <<"[">>)
       THEN LET i == LastIndex(host, "]")
            IN  i # 0 /\ validOptionalPort(From(host, i))
       ELSE LET i == LastIndex(host, ":")
            IN  i # 0 => validOptionalPort(SubSeq(host, i, Len(host)))
    /\ \A i \in 1..Len(host) : host[i] \in HostChars

\* url.parseAuthority: [err, username]
parseAuthority(authority) ==
    LET i == LastIndex(authority, "@")
        host == IF i = 0 THEN authority ELSE SubSeq(authority, i + 1, Len(authority))
        userinfo == SubSeq(authority, 1, i - 1)
    IN  IF ~parseHostOk(host) THEN [err |-> TRUE, username |-> <<>>]
        ELSE IF i = 0 THEN [err |-> FALSE, username |-> <<>>]
        ELSE IF \E k \in 1..Len(userinfo) : userinfo[k] \notin UserinfoChars
             THEN [err |-> TRUE, username |-> <<>>]
        ELSE [err |-> FALSE, username |-> SplitN2(userinfo, ":")[1]]

\* url.Parse(uri) followed by u.User.Username(), for a uri with the scheme
\* "postgresql": [err, username]
urlParse(uri) ==
    LET u == SplitN2(uri, "#")[1]
        \* getScheme: the scheme ends at the first ":"
        afterScheme == From(u, Index(u, ":"))
        q == Index(afterScheme, "?")
        \* a trailing lone "?" is dropped, else the query is cut off
        rest == IF q = 0 THEN afterScheme ELSE SubSeq(afterScheme, 1, q - 1)
        afterSlashes == From(rest, 2)
        slash == Index(afterSlashes, "/")
        authority == IF slash = 0 THEN afterSlashes
                     ELSE SubSeq(afterSlashes, 1, slash - 1)
    IN  IF ContainsCTLByte(u) THEN [err |-> TRUE, username |-> <<>>]
        \* a rootless path is opaque: no User
        ELSE IF ~HasPrefix(rest, <<"/">>) THEN [err |-> FALSE, username |-> <<>>]
        ELSE IF HasPrefix(rest, <<"/", "/">>) THEN parseAuthority(authority)
        ELSE [err |-> FALSE, username |-> <<>>]

(***************************************************************************)
(* The Username Resolver.                                                  *)
(***************************************************************************)
isShortOption(arg) ==
    HasPrefix(arg, <<"-">>)

isLongOption(arg) ==
    HasPrefix(arg, <<"-", "-">>)

\* a table that lacks the username option
shortOptionsLackingU ==
    {"c", "d", "f", "V", "?", "F", "R", "T", "h", "p"}

shortOptionsHavingArg ==
    {"c", "d", "f", "V", "?", "F", "R", "T", "h", "p", "U"}

longOptionsHavingArg ==
    {<<"c", "o", "m", "m", "a", "n", "d">>,
     <<"d", "b", "n", "a", "m", "e">>,
     <<"f", "i", "l", "e">>,
     <<"s", "e", "t">>,
     <<"v", "a", "r", "i", "a", "b", "l", "e">>,
     <<"h", "e", "l", "p">>,
     <<"l", "o", "g", "-", "f", "i", "l", "e">>,
     <<"o", "u", "t", "p", "u", "t">>,
     <<"f", "i", "e", "l", "d", "-", "s", "e", "p", "a", "r", "a", "t", "o", "r">>,
     <<"p", "s", "e", "t">>,
     <<"r", "e", "c", "o", "r", "d", "-", "s", "e", "p", "a", "r", "a", "t", "o", "r">>,
     <<"t", "a", "b", "l", "e", "-", "a", "t", "t", "r">>,
     <<"h", "o", "s", "t">>,
     <<"p", "o", "r", "t">>,
     <<"u", "s", "e", "r", "n", "a", "m", "e">>}

\* the kinds of line the wrapper's logger writes to the error stream
LogLine(text, detail, n) ==
    [text |-> text, detail |-> detail, n |-> n]

searchConnectionURIForUsername(uri) ==
    LET r == urlParse(uri)
    IN  IF r.err THEN <<>> ELSE r.username

searchConnectionURILog(uri) ==
    IF urlParse(uri).err THEN <<LogLine("parse error", uri, 0)>> ELSE <<>>

\* the value of the first parameter "user=..." of a keyword/value string
RECURSIVE searchParamsForUser(_, _)
searchParamsForUser(params, k) ==
    IF k > Len(params) THEN <<>>
    ELSE LET kv == SplitN2(params[k], "=")
         IN  IF Len(kv) = 2 /\ kv[1] = <<"u", "s", "e", "r">>
             THEN TrimSpace(kv[2])
             ELSE searchParamsForUser(params, k + 1)

searchConnectionStringForUsername(s) ==
    searchParamsForUser(SplitSpace(s, 1, <<>>), 1)

searchConnectionArgForUsername(arg) ==
    IF HasPrefix(arg, <<"p", "o", "s", "t", "g", "r", "e", "s", "q", "l", ":">>)
    THEN searchConnectionURIForUsername(arg)
    ELSE searchConnectionStringForUsername(arg)

searchConnectionArgLog(arg) ==
    IF HasPrefix(arg, <<"p", "o", "s", "t", "g", "r", "e", "s", "q", "l", ":">>)
    THEN searchConnectionURILog(arg)
    ELSE <<>>

\* two or more positional arguments are read as "dbname username ..."
searchPositionalArgsSecondOfMany(positional) ==
    CASE Len(positional) = 0 -> <<>>
      [] Len(positional) = 1 -> searchConnectionArgForUsername(positional[1])
      [] OTHER -> positional[2]

searchPositionalArgsForUsername(positional) ==
    CASE Len(positional) = 0 -> <<>>
      [] Len(positional) = 1 -> searchConnectionArgForUsername(positional[1])
      [] Len(positional) = 2 -> positional[2]
      [] OTHER -> <<>>

searchPositionalArgsLog(positional) ==
    CASE Len(positional) = 0 -> <<>>
      [] Len(positional) = 1 -> searchConnectionArgLog(positional[1])
      [] Len(positional) = 2 -> <<>>
      [] OTHER -> <<LogLine("Too many positional arguments", <<>>, Len(positional))>>

\* whether the option at position i (1-based) has no inline value, is listed as
\* having an argument, and is followed by a token: the loop then does i++ and
\* takes args[i] as the value
takesNext(args, i) ==
    LET arg == args[i]
    IN  IF isLongOption(arg)
        THEN /\ Len(arg) > 2
             /\ Len(SplitN2(From(arg, 2), "=")) < 2
             /\ SplitN2(From(arg, 2), "=")[1] \in longOptionsHavingArg
             /\ i + 1 <= Len(args)
        ELSE IF isShortOption(arg)
        THEN /\ Len(arg) = 2
             /\ arg[2] \in shortOptionsHavingArg
             /\ i + 1 <= Len(args)
        ELSE FALSE

\* the loop of searchArgsForUsername from position i on (1-based), with the
\* option-derived candidate and the positional arguments collected so far
RECURSIVE scanArgs(_, _, _, _)
scanArgs(args, i, username, positional) ==
    IF i > Len(args) THEN [username |-> username, positional |-> positional]
    ELSE LET arg == args[i]
             next == IF takesNext(args, i) THEN i + 2 ELSE i + 1
         IN  IF isLongOption(arg)
             THEN IF Len(arg) <= 2 THEN scanArgs(args, i + 1, username, positional)
                  ELSE LET kv == SplitN2(From(arg, 2), "=")
                           longName == kv[1]
                           value == IF Len(kv) >= 2 THEN kv[2]
                                    ELSE IF takesNext(args, i) THEN args[i + 1]
                                    ELSE <<>>
                       IN  scanArgs(args, next,
                                    IF longName = <<"u", "s", "e", "r", "n", "a", "m", "e">> THEN value ELSE username,
                                    positional)
             ELSE IF isShortOption(arg)
             THEN IF Len(arg) <= 1 THEN scanArgs(args, i + 1, username, positional)
                  ELSE LET shortName == arg[2]
                           value == IF Len(arg) > 2 THEN From(arg, 2)
                                    ELSE IF takesNext(args, i) THEN args[i + 1]
                                    ELSE <<>>
                       IN  scanArgs(args, next,
                                    IF shortName = "U" THEN value ELSE username,
                                    positional)
             ELSE scanArgs(args, i + 1, username, Append(positional, arg))

\* the positional-derived username only fills in for a missing option
searchArgsOptionFirst(args) ==
    LET scan == scanArgs(args, 1, <<>>, <<>>)
        found == searchPositionalArgsForUsername(scan.positional)
    IN  IF scan.username # <<>> THEN scan.username ELSE found

searchArgsForUsername(args) ==
    LET scan == scanArgs(args, 1, <<>>, <<>>)
        found == searchPositionalArgsForUsername(scan.positional)
    IN  IF found # <<>> THEN found ELSE scan.username

searchArgsLog(args) ==
    searchPositionalArgsLog(scanArgs(args, 1, <<>>, <<>>).positional)

\* os.Getenv: "" for a variable that is unset or set to ""
Getenv(v) ==
    IF v.set THEN v.value ELSE <<>>

searchForUsername(args, pguser) ==
    LET username == searchArgsForUsername(args)
    IN  IF username = <<>> THEN Getenv(pguser) ELSE username

(***************************************************************************)
(* Package path/filepath, with "/" as the separator and no volume name.    *)
(***************************************************************************)
\* the elements of a path between its separators, empty ones included
RECURSIVE pathElements(_, _, _)
pathElements(p, i, elem) ==
    IF i > Len(p) THEN <<elem>>
    ELSE IF p[i] = "/" THEN <<elem>> \o pathElements(p, i + 1, <<>>)
    ELSE pathElements(p, i + 1, Append(elem, p[i]))

\* filepath.Clean's pass over the elements: "" and "." are dropped, ".." takes
\* back the element before it, is dropped at the root, and is kept at the start
\* of a path that is not rooted
RECURSIVE cleanElements(_, _, _, _)
cleanElements(elems, k, rooted, out) ==
    IF k > Len(elems) THEN out
    ELSE LET e == elems[k]
         IN  IF e = <<>> \/ e = <<".">>
             THEN cleanElements(elems, k + 1, rooted, out)
             ELSE IF e = <<".", ".">>
             THEN IF out # <<>> /\ out[Len(out)] # <<".", ".">>
                  THEN cleanElements(elems, k + 1, rooted, SubSeq(out, 1, Len(out) - 1))
                  ELSE IF rooted
                  THEN cleanElements(elems, k + 1, rooted, out)
                  ELSE cleanElements(elems, k + 1, rooted, Append(out, e))
             ELSE cleanElements(elems, k + 1, rooted, Append(out, e))

\* the elements joined by separators
RECURSIVE joinElements(_, _)
joinElements(elems, k) ==
    IF k > Len(elems) THEN <<>>
    ELSE IF k = Len(elems) THEN elems[k]
    ELSE elems[k] \o <<"/">> \o joinElements(elems, k + 1)

\* filepath.Clean
Clean(p) ==
    LET rooted == HasPrefix(p, <<"/">>)
        out == joinElements(cleanElements(pathElements(p, 1, <<>>), 1, rooted, <<>>), 1)
    IN  IF rooted THEN <<"/">> \o out
        ELSE IF out = <<>> THEN <<".">>
        ELSE out

\* filepath.Dir: Clean of the path up to and including its last separator
Dir(p) ==
    Clean(SubSeq(p, 1, LastIndex(p, "/")))

\* filepath.Join(dir, elem): Clean of the non-empty elements joined by separators
Join(dir, elem) ==
    IF dir = <<>> /\ elem = <<>> THEN <<>>
    ELSE IF dir = <<>> THEN Clean(elem)
    ELSE IF elem = <<>> THEN Clean(dir)
    ELSE Clean(dir \o <<"/">> \o elem)

(***************************************************************************)
(* The inputs of the model.                                                *)
(***************************************************************************)
\* sequences over S of length at most n
SeqUpTo(S, n) ==
    UNION {[1..k -> S] : k \in 0..n}

\* the tokens of the argument vectors given to the Resolver
ArgTokens ==
    {<<"-", "-", "u", "s", "e", "r", "n", "a", "m", "e", "=", "a">>,
     <<"-", "-", "u", "s", "e", "r", "n", "a", "m", "e">>,
     <<"-", "U", "b">>,
     <<"-", "U">>,
     <<"-", "c">>,
     <<"-", "-">>,
     <<"-">>,
     <<"-", "-", "p", "o", "r", "t">>,
     <<"e">>,
     <<"d", "b">>,
     <<"x", " ", "u", "s", "e", "r", "=", "d">>,
     <<"p", "o", "s", "t", "g", "r", "e", "s", "q", "l", ":", "/", "/", "c", "@", "h", "/", "d", "b">>,
     <<"p", "o", "s", "t", "g", "r", "e", "s", "q", "l", ":", "/", "/", "c", "@", "h", ":", "x">>}

\* the tokens of the argument vectors of a modelled invocation
LaunchTokens ==
    {<<"-", "U", "b">>,
     <<"-", "U">>,
     <<"d", "b">>,
     <<"x", " ", "u", "s", "e", "r", "=", "d">>}

\* an environment variable: unset, or set to a value
Unset == [set |-> FALSE, value |-> <<>>]

SetTo(v) == [set |-> TRUE, value |-> v]

\* the characters of the password provider's standard output
OutChars == {"s", " ", "\n"}

\* the exit codes of a child that exits normally
ExitCodes == (0..MaxExit) \cup {255}

\* a child process: how often exec was attempted, where the process is
\* ("none", "failed" to start, "running", "exited", "signaled"), its exit code,
\* and the arguments and environment it was started with
NoChild ==
    [attempts |-> 0, state |-> "none", code |-> 0, argv |-> <<>>, env |-> <<>>]

(***************************************************************************)
(* The state of one invocation.                                            *)
(***************************************************************************)
VARIABLES
    path,                 \* os.Args[0], wrapper.path
    args,                 \* os.Args[1:], the arguments of launch
    PGUSER,               \* the environment variable PGUSER
    PGW_PASSWORD_PROVIDER,\* the environment variable PGW_PASSWORD_PROVIDER
    defaultProviderFile,  \* os.Stat finds password_provider beside the wrapper
    pc,                   \* where the invocation is
    username,             \* buildEnv's username
    providerOut,          \* the standard output cmd.Output() captured
    password,             \* buildEnv's password
    env,                  \* buildEnv's env
    log,                  \* the lines written by wrapper.logger
    providerCmd,          \* the password provider's exec.Cmd and process
    targetCmd,            \* the target command's exec.Cmd and process
    exitCode,             \* the result of launch
    exitStatus            \* the exit status of the wrapper's process

vars ==
    <<path, args, PGUSER, PGW_PASSWORD_PROVIDER, defaultProviderFile, pc, username,
      providerOut, password, env, log, providerCmd, targetCmd, exitCode, exitStatus>>

inputs ==
    <<path, args, PGUSER, PGW_PASSWORD_PROVIDER, defaultProviderFile>>

\* main.go: the name and the command given to Launch
name == <<"p", "s", "q", "l", "w">>

command == <<"p", "s", "q", "l">>

defaultPasswordProvider ==
    <<"p", "a", "s", "s", "w", "o", "r", "d", "_", "p", "r", "o", "v", "i", "d", "e", "r">>

\* os.Environ(): the variables that are set, as name and value
Environ ==
    (IF PGUSER.set THEN <<[name |-> "PGUSER", value |-> PGUSER.value]>> ELSE <<>>)
    \o (IF PGW_PASSWORD_PROVIDER.set
        THEN <<[name |-> "PGW_PASSWORD_PROVIDER", value |-> PGW_PASSWORD_PROVIDER.value]>>
        ELSE <<>>)

\* the default provider is used without os.Stat
getPasswordProviderNoStat ==
    LET fromEnv == Getenv(PGW_PASSWORD_PROVIDER)
    IN  IF fromEnv = <<>>
        THEN Join(Dir(path), defaultPasswordProvider)
        ELSE fromEnv

getPasswordProvider ==
    LET fromEnv == Getenv(PGW_PASSWORD_PROVIDER)
    IN  IF fromEnv = <<>> /\ defaultProviderFile
        THEN Join(Dir(path), defaultPasswordProvider)
        ELSE fromEnv

InitLocals ==
    /\ username = <<>>
    /\ providerOut = <<>>
    /\ password = <<>>
    /\ env = <<>>
    /\ log = <<>>
    /\ providerCmd = NoChild
    /\ targetCmd = NoChild
    /\ exitCode = 0
    /\ exitStatus = 0

Init ==
    /\ path \in {<<"p", "s", "q", "l", "w">>,
                 <<"/", "b", "/", "p", "s", "q", "l", "w">>,
                 <<".", "/", "b", "/", "/", "p", "s", "q", "l", "w">>}
    /\ args \in SeqUpTo(LaunchTokens, MaxLaunchArgs)
    /\ PGUSER \in {Unset, SetTo(<<>>), SetTo(<<"g">>)}
    /\ PGW_PASSWORD_PROVIDER \in {Unset, SetTo(<<"/", "p">>)}
    /\ defaultProviderFile \in BOOLEAN
    /\ pc = "main"
    /\ InitLocals

(***************************************************************************)
(* The Launcher.  launch blocks in cmd.Output() and in cmd.Run(); an       *)
(* action is the code between two such waits.                              *)
(***************************************************************************)
\* os.ProcessState.ExitCode(): -1 for a process terminated by a signal
ExitCode(child) ==
    IF child.state = "signaled" THEN -1 ELSE child.code

\* the provider's exit status is ignored
invokePasswordProviderIgnoreExit(prov, child, stdout) ==
    CASE child.state \in {"exited", "signaled"} ->
            [password |-> TrimRight(stdout, {"\n"}), err |-> <<>>]
      [] OTHER ->
            [password |-> <<>>,
             err |-> <<LogLine("failed to invoke the password provider", prov, 0)>>]

\* the output is trimmed with strings.TrimSpace
invokePasswordProviderTrimSpace(prov, child, stdout) ==
    CASE child.state = "exited" /\ child.code = 0 ->
            [password |-> TrimSpace(stdout), err |-> <<>>]
      [] child.state \in {"exited", "signaled"} ->
            [password |-> <<>>,
             err |-> <<LogLine("password provider exited with an error", prov, 0)>>]
      [] OTHER ->
            [password |-> <<>>,
             err |-> <<LogLine("failed to invoke the password provider", prov, 0)>>]

\* invokePasswordProvider, given how cmd.Output() ended: the password and the
\* error (no line, or the one line launch logs)
invokePasswordProvider(prov, child, stdout) ==
    CASE child.state = "exited" /\ child.code = 0 ->
            [password |-> TrimRight(stdout, {"\n"}), err |-> <<>>]
      [] child.state \in {"exited", "signaled"} ->
            [password |-> <<>>,
             err |-> <<LogLine("password provider exited with an error", prov, 0)>>]
      [] OTHER ->
            [password |-> <<>>,
             err |-> <<LogLine("failed to invoke the password provider", prov, 0)>>]

\* retrievePasswordForUser when no provider is configured
retrievePasswordNoProvider ==
    [password |-> <<>>,
     err |-> <<LogLine("environment variable PGW_PASSWORD_PROVIDER is undefined", <<>>, 0)>>]

\* buildEnv after the password was retrieved: PGPASSWORD is appended for a
\* password that is not empty
buildEnvAppend(e, pw) ==
    IF pw # <<>> THEN Append(e, [name |-> "PGPASSWORD", value |-> pw]) ELSE e

\* every *exec.ExitError gives the generic failure code
runCommandFlat(child) ==
    CASE child.state = "exited" /\ child.code = 0 -> [exitCode |-> 0, err |-> <<>>]
      [] child.state \in {"exited", "signaled"} -> [exitCode |-> 1, err |-> <<>>]
      [] OTHER -> [exitCode |-> 1, err |-> <<LogLine("exec error", child.argv[1], 0)>>]

\* runCommand, given how cmd.Run() ended: the exit code and the error
runCommand(child) ==
    CASE child.state = "exited" /\ child.code = 0 -> [exitCode |-> 0, err |-> <<>>]
      [] child.state \in {"exited", "signaled"} -> [exitCode |-> ExitCode(child), err |-> <<>>]
      [] OTHER -> [exitCode |-> 1, err |-> <<LogLine("exec error", child.argv[1], 0)>>]

\* exec.Command(...) and the start of the process
Spawn(child, argv, e, started) ==
    [attempts |-> child.attempts + 1,
     state |-> IF started THEN "running" ELSE "failed",
     code |-> 0, argv |-> argv, env |-> e]

\* buildEnv retrieves a password for the empty username too
BuildEnvAlwaysRetrieve ==
    /\ pc = "main"
    /\ username' = searchForUsername(args, PGUSER)
    /\ env' = Environ
    /\ IF getPasswordProvider = <<>>
       THEN /\ log' = searchArgsLog(args) \o retrievePasswordNoProvider.err
            /\ pc' = "returned"
            /\ exitCode' = 1
       ELSE /\ log' = searchArgsLog(args)
            /\ pc' = "invokePasswordProvider"
            /\ exitCode' = exitCode
    /\ UNCHANGED <<inputs, providerOut, password, providerCmd, targetCmd, exitStatus>>

\* Launch, launch and buildEnv up to the password provider's invocation
BuildEnv ==
    /\ pc = "main"
    /\ LET user == searchForUsername(args, PGUSER)
       IN  /\ username' = user
           /\ env' = Environ
           /\ IF user = <<>>
              THEN /\ log' = searchArgsLog(args)
                              \o <<LogLine("Cannot detect username to login", <<>>, 0)>>
                   /\ pc' = "runCommand"
                   /\ exitCode' = exitCode
              ELSE IF getPasswordProvider = <<>>
              THEN /\ log' = searchArgsLog(args) \o retrievePasswordNoProvider.err
                   /\ pc' = "returned"
                   /\ exitCode' = 1
              ELSE /\ log' = searchArgsLog(args)
                   /\ pc' = "invokePasswordProvider"
                   /\ exitCode' = exitCode
    /\ UNCHANGED <<inputs, providerOut, password, providerCmd, targetCmd, exitStatus>>

\* cmd.Output() cannot start the password provider
ProviderStartFails ==
    /\ pc = "invokePasswordProvider"
    /\ LET child == Spawn(providerCmd, <<getPasswordProvider, username>>, Environ, FALSE)
       IN  /\ providerCmd' = child
           /\ log' = log \o invokePasswordProvider(getPasswordProvider, child, <<>>).err
    /\ exitCode' = 1
    /\ pc' = "returned"
    /\ UNCHANGED <<inputs, username, providerOut, password, env, targetCmd, exitStatus>>

\* the password provider is started and not waited for
ProviderStartsNoWait ==
    /\ pc = "invokePasswordProvider"
    /\ providerCmd' = Spawn(providerCmd, <<getPasswordProvider, username>>, Environ, TRUE)
    /\ pc' = "runCommand"
    /\ UNCHANGED <<inputs, username, providerOut, password, env, log, targetCmd,
                   exitCode, exitStatus>>

\* cmd.Output() starts the password provider and waits for it
ProviderStarts ==
    /\ pc = "invokePasswordProvider"
    /\ providerCmd' = Spawn(providerCmd, <<getPasswordProvider, username>>, Environ, TRUE)
    /\ pc' = "providerRunning"
    /\ UNCHANGED <<inputs, username, providerOut, password, env, log, targetCmd,
                   exitCode, exitStatus>>

\* the rest of buildEnv and of launch once the password provider has ended
ProviderEnded(child, stdout) ==
    LET r == invokePasswordProvider(getPasswordProvider, child, stdout)
    IN  /\ providerCmd' = child
        /\ providerOut' = stdout
        /\ password' = r.password
        /\ log' = log \o r.err
        /\ IF r.err # <<>>
           THEN /\ exitCode' = 1
                /\ pc' = "returned"
                /\ env' = env
           ELSE /\ exitCode' = exitCode
                /\ pc' = "runCommand"
                /\ env' = buildEnvAppend(env, r.password)
        /\ UNCHANGED <<inputs, username, targetCmd, exitStatus>>

\* the password provider exits, or is terminated by a signal
ProviderExits ==
    /\ pc = "providerRunning"
    /\ \/ \E stdout \in SeqUpTo(OutChars, MaxOut) :
             ProviderEnded([providerCmd EXCEPT !.state = "exited", !.code = 0], stdout)
       \/ \E code \in ExitCodes \ {0} :
             ProviderEnded([providerCmd EXCEPT !.state = "exited", !.code = code], <<>>)
       \/ ProviderEnded([providerCmd EXCEPT !.state = "signaled"], <<>>)

\* the rest of runCommand and of launch once cmd.Run() has returned
TargetEnded(child) ==
    LET r == runCommand(child)
    IN  /\ targetCmd' = child
        /\ exitCode' = r.exitCode
        /\ log' = log \o r.err
        /\ pc' = "returned"
        /\ UNCHANGED <<inputs, username, providerOut, password, env, providerCmd, exitStatus>>

\* cmd.Run() cannot start the target command
TargetStartFails ==
    /\ pc = "runCommand"
    /\ TargetEnded(Spawn(targetCmd, <<command>> \o args, env, FALSE))

\* cmd.Run() starts the target command and waits for it
TargetStarts ==
    /\ pc = "runCommand"
    /\ targetCmd' = Spawn(targetCmd, <<command>> \o args, env, TRUE)
    /\ pc' = "targetRunning"
    /\ UNCHANGED <<inputs, username, providerOut, password, env, log, providerCmd,
                   exitCode, exitStatus>>

\* the target command exits, or is terminated by a signal
TargetExits ==
    /\ pc = "targetRunning"
    /\ \/ \E code \in ExitCodes :
             TargetEnded([targetCmd EXCEPT !.state = "exited", !.code = code])
       \/ TargetEnded([targetCmd EXCEPT !.state = "signaled"])

\* main: os.Exit(exitCode), or the return from main for 0; the exit status of
\* a process is the low 8 bits of the code
MainExit ==
    /\ pc = "returned"
    /\ exitStatus' = exitCode % 256
    /\ pc' = "exited"
    /\ UNCHANGED <<inputs, username, providerOut, password, env, log, providerCmd,
                   targetCmd, exitCode>>

Next ==
    \/ BuildEnv
    \/ ProviderStartFails
    \/ ProviderStarts
    \/ ProviderExits
    \/ TargetStartFails
    \/ TargetStarts
    \/ TargetExits
    \/ MainExit

Spec == Init /\ [][Next]_vars

(***************************************************************************)
(* The Resolver alone, on the argument vectors over ArgTokens.             *)
(***************************************************************************)
InitResolver ==
    /\ path = name
    /\ args \in SeqUpTo(ArgTokens, MaxArgs)
    /\ PGUSER \in {Unset, SetTo(<<>>), SetTo(<<"g">>)}
    /\ PGW_PASSWORD_PROVIDER = Unset
    /\ defaultProviderFile = FALSE
    /\ pc = "resolve"
    /\ InitLocals

\* searchForUsername(args)
Resolve ==
    /\ pc = "resolve"
    /\ username' = searchForUsername(args, PGUSER)
    /\ log' = searchArgsLog(args)
    /\ pc' = "resolved"
    /\ UNCHANGED <<inputs, providerOut, password, env, providerCmd, targetCmd,
                   exitCode, exitStatus>>

NextResolver ==
    Resolve

SpecResolver == InitResolver /\ [][NextResolver]_vars

(***************************************************************************)
(* Properties of the Launcher, checked under Spec.                         *)
(***************************************************************************)
Returned == pc \in {"returned", "exited"}

HasVariable(e, n) == \E i \in DOMAIN e : e[i].name = n

NoProviderConfigured ==
    /\ Getenv(PGW_PASSWORD_PROVIDER) = <<>>
    /\ ~defaultProviderFile

\* C1: whenever the target ran and exited normally with status N, launch has
\* returned N, and the wrapper's process exits with status N.
C1_ExitCodePropagated ==
    targetCmd.state = "exited" =>
        /\ Returned
        /\ exitCode = targetCmd.code
        /\ pc = "exited" => exitStatus = targetCmd.code

C1_Witness ==
    /\ pc = "exited"
    /\ targetCmd.state = "exited"
    /\ targetCmd.code = 2
    /\ exitStatus = 2

\* C2: when the Resolver yields a username and no password provider is configured
\* (PGW_PASSWORD_PROVIDER empty, no password_provider beside the wrapper), launch
\* returns 1 and neither the target nor a provider is ever spawned.
C2_NoProviderIsFatal ==
    (searchForUsername(args, PGUSER) # <<>> /\ NoProviderConfigured) =>
        /\ targetCmd.attempts = 0
        /\ providerCmd.attempts = 0
        /\ pc \in {"main", "returned", "exited"}
        /\ Returned => exitCode = 1
        /\ pc = "exited" => exitStatus = 1

C2_Witness ==
    /\ searchForUsername(args, PGUSER) # <<>>
    /\ NoProviderConfigured
    /\ pc = "exited"
    /\ exitCode = 1
    /\ targetCmd.attempts = 0

\* C3: when the password provider was invoked and exited with a non-zero status,
\* the target is never launched, a line naming the provider is logged, and launch
\* returns 1.
C3_ProviderFailureIsFatal ==
    (providerCmd.state = "exited" /\ providerCmd.code # 0) =>
        /\ targetCmd.attempts = 0
        /\ Returned
        /\ exitCode = 1
        /\ \E i \in DOMAIN log :
              /\ log[i].text = "password provider exited with an error"
              /\ log[i].detail = getPasswordProvider
        /\ pc = "exited" => exitStatus = 1

C3_Witness ==
    /\ providerCmd.state = "exited"
    /\ providerCmd.code = 1
    /\ pc = "exited"
    /\ targetCmd.attempts = 0

\* C4: when the arguments yield no username and PGUSER is unset or empty, the
\* password provider is never invoked, no PGPASSWORD is added to the child's
\* environment, and launch goes on to start the target with the original arguments.
C4_NoUsernameSkipsInjection ==
    (searchArgsForUsername(args) = <<>> /\ Getenv(PGUSER) = <<>>) =>
        /\ providerCmd.attempts = 0
        /\ ~HasVariable(env, "PGPASSWORD")
        /\ ~HasVariable(targetCmd.env, "PGPASSWORD")
        /\ pc \in {"main", "runCommand", "targetRunning", "returned", "exited"}
        /\ pc \in {"targetRunning", "returned", "exited"} =>
              /\ targetCmd.attempts = 1
              /\ targetCmd.argv = <<command>> \o args
              /\ targetCmd.env = Environ

C4_Witness ==
    /\ searchArgsForUsername(args) = <<>>
    /\ Getenv(PGUSER) = <<>>
    /\ Len(args) = 2
    /\ pc = "targetRunning"
    /\ targetCmd.state = "running"
    /\ targetCmd.argv = <<command>> \o args
    /\ providerCmd.attempts = 0

\* the output without its trailing newlines, said without strings.TrimRight:
\* the prefix that does not end in a newline and is followed by newlines only
WithoutTrailingNewlines(out) ==
    CHOOSE p \in {SubSeq(out, 1, k) : k \in 0..Len(out)} :
        /\ p = <<>> \/ p[Len(p)] # "\n"
        /\ \A i \in (Len(p) + 1)..Len(out) : out[i] = "\n"

\* C8 as stated: an output of white space and newlines only gives the empty
\* password and no PGPASSWORD; any other output is injected without its trailing
\* newlines.
C8_WhitespaceOnlyIsEmpty ==
    (providerCmd.state = "exited" /\ providerCmd.code = 0) =>
        IF \A i \in DOMAIN providerOut : providerOut[i] \in WhiteSpace
        THEN /\ password = <<>>
             /\ ~HasVariable(env, "PGPASSWORD")
        ELSE env = Append(Environ, [name |-> "PGPASSWORD",
                                    value |-> WithoutTrailingNewlines(providerOut)])

\* C8, amended: an output of newlines only (or no output) gives the empty password
\* and no PGPASSWORD; any other output is injected without its trailing newlines
\* and otherwise unchanged, white space included; the target gets that environment.
C8_NewlinesOnlyIsEmpty ==
    (providerCmd.state = "exited" /\ providerCmd.code = 0) =>
        /\ password = WithoutTrailingNewlines(providerOut)
        /\ IF \A i \in DOMAIN providerOut : providerOut[i] = "\n"
           THEN /\ password = <<>>
                /\ env = Environ
           ELSE env = Append(Environ, [name |-> "PGPASSWORD",
                                       value |-> WithoutTrailingNewlines(providerOut)])
        /\ targetCmd.attempts > 0 => targetCmd.env = env

C8_Witness ==
    /\ providerCmd.state = "exited"
    /\ providerCmd.code = 0
    /\ providerOut = <<" ", "\n">>
    /\ targetCmd.state = "running"
    /\ targetCmd.env = Append(Environ, [name |-> "PGPASSWORD", value |-> <<" ">>])

\* C9 as stated: when the running target is terminated by a signal, launch returns
\* a non-zero code and logs an error line.
C9_SignalIsLogged ==
    [][(pc = "targetRunning" /\ targetCmd'.state = "signaled") =>
          (exitCode' # 0 /\ Len(log') = Len(log) + 1)]_vars

\* C10: at most one password provider and at most one target are ever spawned (no
\* exec is attempted twice), the two are never alive together, and the target is
\* spawned only when no provider was spawned or the provider has exited; after a
\* failed provider nothing more is spawned.
C10_AtMostTwoChildrenInSequence ==
    /\ providerCmd.attempts <= 1
    /\ targetCmd.attempts <= 1
    /\ ~(providerCmd.state = "running" /\ targetCmd.state = "running")
    /\ targetCmd.attempts > 0 =>
          \/ providerCmd.state = "none"
          \/ providerCmd.state = "exited" /\ providerCmd.code = 0
    /\ targetCmd.state = "failed" => Returned

C10_Witness ==
    /\ pc = "targetRunning"
    /\ providerCmd.attempts = 1
    /\ providerCmd.state = "exited"
    /\ targetCmd.attempts = 1
    /\ targetCmd.state = "running"

(***************************************************************************)
(* Properties of the Resolver, checked under SpecResolver.                 *)
(***************************************************************************)
\* the option-derived candidate and the positional arguments of the scan
OptionDerived(a) == scanArgs(a, 1, <<>>, <<>>).username

Positional(a) == scanArgs(a, 1, <<>>, <<>>).positional

\* the positional-derived username: of a single connection specifier, or the
\* second of exactly two positional arguments
PositionalDerived(a) ==
    LET p == Positional(a)
    IN  IF Len(p) = 1 THEN searchConnectionArgForUsername(p[1])
        ELSE IF Len(p) = 2 THEN p[2]
        ELSE <<>>

\* the four forms of the username option, as tokens
IsUsernameOption(tok) ==
    \/ tok = <<"-", "-", "u", "s", "e", "r", "n", "a", "m", "e">>
    \/ HasPrefix(tok, <<"-", "-", "u", "s", "e", "r", "n", "a", "m", "e", "=">>)
    \/ HasPrefix(tok, <<"-", "U">>) /\ ~isLongOption(tok)

\* the explicit values the username option at position i carries: inline, or
\* the following token
UsernameOptionValues(a, i) ==
    IF HasPrefix(a[i], <<"-", "-", "u", "s", "e", "r", "n", "a", "m", "e", "=">>) THEN {From(a[i], 11)}
    ELSE IF a[i] = <<"-", "-", "u", "s", "e", "r", "n", "a", "m", "e">> \/ a[i] = <<"-", "U">>
         THEN IF i < Len(a) THEN {a[i + 1]} ELSE {}
    ELSE IF HasPrefix(a[i], <<"-", "U">>) THEN {From(a[i], 2)}
    ELSE {}

\* the positions the scan classifies: those not taken as an option's value
RECURSIVE Visited(_, _)
Visited(a, i) ==
    IF i > Len(a) THEN {}
    ELSE {i} \cup Visited(a, IF takesNext(a, i) THEN i + 2 ELSE i + 1)

\* C5 as stated: a vector that holds the username option with an explicit value v,
\* in any of the four forms, resolves to v whatever else it holds.
C5_OptionValueAlwaysWins ==
    pc = "resolved" =>
        \A i \in DOMAIN args : \A v \in UsernameOptionValues(args, i) : username = v

\* C5, amended: when the scan reads the username option with an explicit value v
\* that is not empty, reads no username option after it, and the positional
\* arguments yield no username, the Resolver returns v.
C5_LastScannedOptionWins ==
    pc = "resolved" =>
        \A i \in Visited(args, 1) : \A v \in UsernameOptionValues(args, i) :
            ( /\ v # <<>>
              /\ \A j \in Visited(args, 1) : j > i => ~IsUsernameOption(args[j])
              /\ PositionalDerived(args) = <<>> )
            => username = v

C5_Witness ==
    /\ pc = "resolved"
    /\ Len(args) = 4
    /\ args[3] = <<"-", "U">>
    /\ Visited(args, 1) = {1, 2, 3}
    /\ Len(Positional(args)) = 1
    /\ IsUsernameOption(args[1])
    /\ username = args[4]
    /\ username # Getenv(PGUSER)

\* C6: when the vector yields an option-derived username and a positional-derived
\* username that is not empty, the Resolver returns the positional-derived one.
C6_PositionalOverridesOption ==
    (pc = "resolved" /\ OptionDerived(args) # <<>> /\ PositionalDerived(args) # <<>>) =>
        username = PositionalDerived(args)

C6_Witness ==
    /\ pc = "resolved"
    /\ Len(args) = 3
    /\ ~isShortOption(args[1])
    /\ IsUsernameOption(args[3])
    /\ OptionDerived(args) # <<>>
    /\ PositionalDerived(args) # <<>>
    /\ OptionDerived(args) # PositionalDerived(args)
    /\ username = PositionalDerived(args)

TooManyLogged(n) ==
    \E i \in DOMAIN log :
        log[i].text = "Too many positional arguments" /\ log[i].n = n

\* C7 as stated: with three or more positional arguments the Resolver returns no
\* username and logs a warning.
C7_TooManyGivesNoUsername ==
    (pc = "resolved" /\ Len(Positional(args)) >= 3) =>
        /\ username = <<>>
        /\ TooManyLogged(Len(Positional(args)))

\* C7, amended: with three or more positional arguments a warning with their number
\* is logged and they yield no username: the Resolver returns the option-derived
\* candidate, or PGUSER when there is none ("no username" when both are empty).
C7_TooManyGivesNoPositionalUsername ==
    (pc = "resolved" /\ Len(Positional(args)) >= 3) =>
        /\ TooManyLogged(Len(Positional(args)))
        /\ username = IF OptionDerived(args) # <<>> THEN OptionDerived(args)
                      ELSE Getenv(PGUSER)

C7_Witness ==
    /\ pc = "resolved"
    /\ Len(Positional(args)) = 3
    /\ OptionDerived(args) = <<"b">>
    /\ username = <<"b">>
    /\ TooManyLogged(3)

====
